---- MODULE Spec2Model ----
(***************************************************************************)
(* Model of the image enhancer: the pixel pipeline of                      *)
(* src/utils/imageProcessing.ts (enhanceZeroDCE, enhanceWithGAN,           *)
(* intelligentDenoising, toneMapping, enhanceImage), its earlier revision  *)
(* (simulateZeroDCE, simulateGAN) and the three revisions of the hook      *)
(* useImageEnhancement.                                                    *)
(*                                                                         *)
(* Numbers.  A Uint8ClampedArray sample is an integer 0..255.  The code    *)
(* computes in IEEE doubles; the model computes the same values with       *)
(* integers: exact rationals where the code's expression is rational, the  *)
(* exact double rounding (FlErr) where a rounding of the double decides a  *)
(* stored sample or a comparison, and fixed point (six decimals) for       *)
(* Math.sqrt and Math.exp.  All intermediate values fit in 32 bits.        *)
(***************************************************************************)
EXTENDS Integers, Sequences, FiniteSets, TLC

Min(a, b) == IF a <= b THEN a ELSE b

Max(a, b) == IF a >= b THEN a ELSE b

Abs(a) == IF a < 0 THEN 0 - a ELSE a

RECURSIVE Pow2(_)
Pow2(k) == IF k <= 0 THEN 1 ELSE 2 * Pow2(k - 1)

RECURSIVE Pow2Mod(_, _)
Pow2Mod(k, m) == IF k <= 0 THEN 1 % m ELSE (2 * Pow2Mod(k - 1, m)) % m

(* floor(sqrt(n)) for 0 <= n < 2^31, by bisection on lo <= sqrt(n) < hi *)
RECURSIVE ISqrtBetween(_, _, _)
ISqrtBetween(n, lo, hi) ==
    IF hi - lo <= 1 THEN lo
    ELSE LET mid == (lo + hi) \div 2
         IN  IF mid * mid <= n THEN ISqrtBetween(n, mid, hi)
             ELSE ISqrtBetween(n, lo, mid)

ISqrt(n) == ISqrtBetween(n, 0, 46341)

(***************************************************************************)
(* Conversion of a number to a Uint8ClampedArray element: round to the     *)
(* nearest integer, ties to even, then clamp to 0..255.  The number is the *)
(* rational n/d (d > 0) plus a deviation of sign dev that is smaller than  *)
(* any distance between two rationals of denominator 2d: dev is the sign   *)
(* of the double's rounding error and decides only an exact tie.           *)
(***************************************************************************)
RoundHalfEvenDev(n, d, dev) ==
    LET q == n \div d
        r == n % d
    IN  IF 2 * r < d THEN q
        ELSE IF 2 * r > d THEN q + 1
        ELSE IF dev > 0 THEN q + 1
        ELSE IF dev < 0 THEN q
        ELSE IF q % 2 = 0 THEN q ELSE q + 1

ClampNoneU8(x) == x

ClampU8(x) == IF x < 0 THEN 0 ELSE IF x > 255 THEN 255 ELSE x

ToUint8ClampedDev(n, d, dev) == ClampU8(RoundHalfEvenDev(n, d, dev))

ToUint8Clamped(n, d) == ToUint8ClampedDev(n, d, 0)

(* Math.round: floor(x + 0.5), for the rational n/d *)
MathRound(n, d) == (2 * n + d) \div (2 * d)

(***************************************************************************)
(* IEEE double rounding.  A double near the rational A/q is written        *)
(* A/q + t*w with w = 2^-FlK / q.  FlErr(q, A, t) is t' such that          *)
(* A/q + t'*w is the double nearest to A/q + t*w (ties to even mantissa).  *)
(* Valid for 2^-8 <= |A/q| < 2^12 and |t| below a few grid steps.          *)
(***************************************************************************)
FlK == 60

FlMant == 52

RECURSIVE FlExpFrom(_, _, _)
FlExpFrom(q, A, e) ==
    (* largest e' >= e with 2^e' * q <= A *)
    LET n == e + 1
        fits == IF n >= 0 THEN q * Pow2(n) <= A ELSE q <= A * Pow2(0 - n)
    IN  IF fits THEN FlExpFrom(q, A, n) ELSE e

FlExp(q, A, t) ==
    LET e == FlExpFrom(q, A, 0 - 9)
        exact == IF e >= 0 THEN q * Pow2(e) = A ELSE q = A * Pow2(0 - e)
    IN  IF exact /\ t < 0 THEN e - 1 ELSE e

FlErrPos(q, A, t) ==
    LET e == FlExp(q, A, t)
        u == Pow2(e + FlK - FlMant)
        g == q * u
        p2 == ((A % (2 * q)) * Pow2Mod(FlMant - e, 2 * q)) % (2 * q)
        rho == p2 % q
        par == (p2 - rho) \div q
        R == u * rho + t
        c == R \div g
        r == R % g
        base == g * c - u * rho
    IN  IF 2 * r < g THEN base
        ELSE IF 2 * r > g THEN base + g
        ELSE IF (par + c) % 2 = 0 THEN base ELSE base + g

FlErr(q, A, t) ==
    IF A = 0 THEN t
    ELSE IF A < 0 THEN 0 - FlErrPos(q, 0 - A, 0 - t)
    ELSE FlErrPos(q, A, t)


(***************************************************************************)
(* Pixel buffers.  An ImageData is [width, height, data]; data is the      *)
(* Uint8ClampedArray, a function on 0..4*width*height-1 (the code's        *)
(* indices), four samples R, G, B, A per pixel, row-major.                 *)
(***************************************************************************)
RECURSIVE SumTo(_, _)
SumTo(f, n) == IF n <= 0 THEN 0 ELSE f[n] + SumTo(f, n - 1)

(* floor(num * 10^digits / den), digit by digit; den > 0, 10*den < 2^31 *)
RECURSIVE LongDiv(_, _, _)
LongDiv(num, den, digits) ==
    IF digits <= 0 THEN <<num \div den, num % den>>
    ELSE LET p == LongDiv(num, den, digits - 1)
         IN  <<10 * p[1] + (10 * p[2]) \div den, (10 * p[2]) % den>>

IsInterior(w, h, x, y) == y >= 1 /\ y < h - 1 /\ x >= 1 /\ x < w - 1

InRange(w, h, nx, ny) == nx >= 0 /\ nx < w /\ ny >= 0 /\ ny < h

(*-------------------------- enhanceZeroDCE -------------------------------*)
alphaTenths == 8

iterations == 3

contrastFactorTenths == 2

(* data[i] = Math.min(255, (r + alpha*r*(1-r)) * 255) with r = v/255.  The *)
(* value is the rational below; it is never a tie (its numerator is even,  *)
(* a tie needs an odd multiple of 1275), so the double rounds as it does.  *)
CurveSampleLift(v) ==
    ToUint8Clamped(Min(255 * 2550, 2550 * v + alphaTenths * 255 * (255 - v)), 2550)

CurveSampleDip(v) ==
    ToUint8Clamped(Min(255 * 2550, 2550 * v - alphaTenths * v * (255 - v)), 2550)

CurveSample(v) ==
    ToUint8Clamped(Min(255 * 2550, 2550 * v + alphaTenths * v * (255 - v)), 2550)

CurvePassAll(data) == [i \in DOMAIN data |-> CurveSample(data[i])]

CurvePass(data) ==
    [i \in DOMAIN data |-> IF i % 4 = 3 THEN data[i] ELSE CurveSample(data[i])]

(* current + contrastFactor * (current - avg), avg over the neighbours     *)
(* that are inside the image.  current - avg is a multiple of 1/8 and      *)
(* 0.2 * that rounds to the exact product whenever the product is a        *)
(* multiple of 1/2, so a tie of the rational is a tie of the double.       *)
LocalContrastSample(tempData, w, h, x, y, c) ==
    LET idx == (y * w + x) * 4
        nb == [k \in 1..9 |->
                 LET dx == ((k - 1) % 3) - 1
                     dy == ((k - 1) \div 3) - 1
                 IN  IF (dx = 0 /\ dy = 0) \/ ~InRange(w, h, x + dx, y + dy)
                     THEN <<0, 0>>
                     ELSE <<tempData[((y + dy) * w + (x + dx)) * 4 + c], 1>>]
        sum == SumTo([k \in 1..9 |-> nb[k][1]], 9)
        count == SumTo([k \in 1..9 |-> nb[k][2]], 9)
        current == tempData[idx + c]
    IN  IF count > 0
        THEN ToUint8Clamped(10 * count * current
                              + contrastFactorTenths * (count * current - sum),
                            10 * count)
        ELSE current

LocalContrastAllPixels(data, w, h) ==
    [i \in DOMAIN data |->
        IF i % 4 < 3
        THEN LocalContrastSample(data, w, h, (i \div 4) % w, (i \div 4) \div w, i % 4)
        ELSE data[i]]

LocalContrast(data, w, h) ==
    LET tempData == data
    IN  [i \in DOMAIN data |->
           LET p == i \div 4
               c == i % 4
               x == p % w
               y == p \div w
           IN  IF c < 3 /\ IsInterior(w, h, x, y)
               THEN LocalContrastSample(tempData, w, h, x, y, c)
               ELSE data[i]]

RECURSIVE DCEIterate(_, _, _, _)
DCEIterate(data, w, h, iteration) ==
    IF iteration >= iterations THEN data
    ELSE LET curved == CurvePass(data)
             after == IF iteration = iterations - 1
                      THEN LocalContrast(curved, w, h) ELSE curved
         IN  DCEIterate(after, w, h, iteration + 1)

enhanceZeroDCE(imageData) ==
    [imageData EXCEPT !.data =
        DCEIterate(imageData.data, imageData.width, imageData.height, 0)]


(*-------------------------- enhanceWithGAN -------------------------------*)
lumR == 299

lumG == 587

lumB == 114

(* 1000 * luminance, and 1000 * (channel - luminance) *)
Luminance1000(r, g, b) == lumR * r + lumG * g + lumB * b

(* numbers above 2^31 are pairs <<hi, lo>> = hi * 10^6 + lo, 0 <= lo < 10^6 *)
SqPair(x) ==
    LET a == x \div 1000
        b == x % 1000
        mid == 2 * a * b * 1000 + b * b
    IN  <<a * a + mid \div 1000000, mid % 1000000>>

AddPair(p, q) ==
    <<p[1] + q[1] + (p[2] + q[2]) \div 1000000, (p[2] + q[2]) % 1000000>>

LeqPair(p, q) == p[1] < q[1] \/ (p[1] = q[1] /\ p[2] <= q[2])

RECURSIVE ISqrtPairBetween(_, _, _)
ISqrtPairBetween(P, lo, hi) ==
    IF hi - lo <= 1 THEN lo
    ELSE LET mid == (lo + hi) \div 2
         IN  IF LeqPair(SqPair(mid), P) THEN ISqrtPairBetween(P, mid, hi)
             ELSE ISqrtPairBetween(P, lo, mid)

(* 1000 * saturation = sqrt((r-L)^2 + (g-L)^2 + (b-L)^2) * 1000, as        *)
(* <<floor, exact>>: exact tells whether the root is that integer          *)
Saturation1000(r, g, b) ==
    LET L == Luminance1000(r, g, b)
        S == AddPair(AddPair(SqPair(Abs(1000 * r - L)), SqPair(Abs(1000 * g - L))),
                     SqPair(Abs(1000 * b - L)))
        t == ISqrtPairBetween(S, 0, 450000)
    IN  <<t, SqPair(t) = S>>

(* saturationFactor = Math.max(0.1, 0.3 * (1 - saturation / 100)), in      *)
(* units of 0.5e-6.  An irrational root is taken at floor + 1/2 (in        *)
(* thousandths of a grey level).                                           *)
SaturationFactorUnbounded(r, g, b) ==
    LET s == Saturation1000(r, g, b)
    IN  600000 - 6 * s[1] - (IF s[2] THEN 0 ELSE 3)

SaturationFactor(r, g, b) == Max(200000, SaturationFactorUnbounded(r, g, b))

(* data[i] = Math.min(255, Math.max(0, v + (v - luminance) * factor)) *)
SaturationSample(v, r, g, b) ==
    LET D == 1000 * v - Luminance1000(r, g, b)
        f == SaturationFactor(r, g, b)
        U == D * (f \div 1000)
        V == D * (f % 1000)
        Y == U + V \div 1000
    IN  ToUint8ClampedDev(2000000 * v + Y, 2000000, IF V % 1000 > 0 THEN 1 ELSE 0)

SaturationPass(tempData) ==
    [i \in DOMAIN tempData |->
        LET b0 == i - (i % 4)
        IN  IF i % 4 = 3 THEN tempData[i]
            ELSE SaturationSample(tempData[i], tempData[b0], tempData[b0 + 1],
                                  tempData[b0 + 2])]

kernel == <<<<0 - 1, 0 - 1, 0 - 1>>, <<0 - 1, 9, 0 - 1>>, <<0 - 1, 0 - 1, 0 - 1>>>>

detailFactorTenths == 7

(* detailFactor * sum + originalFactor * tempData[idx + c], in doubles:    *)
(* detailFactor is the double 0.7 = 7/10 - 0.4 * 2^-53 and originalFactor  *)
(* = 1 - detailFactor = 3/10 + 0.4 * 2^-53; both products and the sum are  *)
(* rounded.  The rounding error decides the stored sample at a tie.        *)
SharpenSample(tempData, w, h, x, y, c) ==
    LET idx == (y * w + x) * 4
        sum == SumTo([k \in 1..9 |->
                 LET kx == (k - 1) % 3
                     ky == (k - 1) \div 3
                     nx == x + kx - 1
                     ny == y + ky - 1
                 IN  IF InRange(w, h, nx, ny)
                     THEN tempData[(ny * w + nx) * 4 + c] * kernel[ky + 1][kx + 1]
                     ELSE 0], 9)
        orig == tempData[idx + c]
        dn == detailFactorTenths
        on == 10 - detailFactorTenths
        eps == 4 * Pow2(FlK - 53)
        p1 == FlErr(10, dn * sum, 0 - eps * sum)
        p2 == FlErr(10, on * orig, eps * orig)
        t3 == FlErr(10, dn * sum + on * orig, p1 + p2)
    IN  ToUint8ClampedDev(dn * sum + on * orig, 10, t3)

SharpenPass(data, readFrom, w, h) ==
    [i \in DOMAIN data |->
        LET p == i \div 4
            c == i % 4
            x == p % w
            y == p \div w
        IN  IF c < 3 /\ IsInterior(w, h, x, y)
            THEN SharpenSample(readFrom, w, h, x, y, c)
            ELSE data[i]]

(* The kernel reads tempData, the copy taken before the saturation step;   *)
(* detailData, the copy taken after it, is never read.                     *)
enhanceWithGAN(imageData) ==
    LET tempData == imageData.data
        saturated == SaturationPass(tempData)
        detailData == saturated
    IN  [imageData EXCEPT !.data =
            SharpenPass(saturated, tempData, imageData.width, imageData.height)]

(*---------------------------- toneMapping --------------------------------*)
avgThreshold == 100

maxThreshold == 240

(* brightness = (r + g + b) / 3 and totalBrightness += brightness, in      *)
(* doubles.  The state is <<S, T, M>>: the total so far is the double      *)
(* S/3 + T * 2^-FlK / 3, M is the largest r + g + b so far.                *)
RECURSIVE BrightnessStats(_, _)
BrightnessStats(data, npix) ==
    IF npix <= 0 THEN <<0, 0, 0>>
    ELSE LET prev == BrightnessStats(data, npix - 1)
             i == 4 * (npix - 1)
             s == data[i] + data[i + 1] + data[i + 2]
         IN  <<prev[1] + s,
               FlErr(3, prev[1] + s, prev[2] + FlErr(3, s, 0)),
               Max(prev[3], s)>>

(* avgBrightness > 100: the quotient total / n rounds to a double above    *)
(* 100 iff total > 100 n + n * 2^-47, half a step of the doubles at 100    *)
AvgExceeds(stats, n) ==
    \/ stats[1] > 3 * avgThreshold * n
    \/ stats[1] = 3 * avgThreshold * n /\ stats[2] > 3 * Pow2(FlK - 47) * n

MaxExceeds(stats) == stats[3] > 3 * maxThreshold

ToneMappingApplies(data) ==
    LET n == Cardinality(DOMAIN data) \div 4
        stats == BrightnessStats(data, n)
    IN  n > 0 /\ (AvgExceeds(stats, n) \/ MaxExceeds(stats))

(* Math.round(gammaCorrected * 255), gammaCorrected = x / (1 + x),         *)
(* x = v / 255: the rational 255 v / (255 + v).  It is a tie for v = 51,   *)
(* 195 and 255; the double is 42.5, 110.49999999999999 and 127.5.          *)
ReinhardDev(v) == IF v = 195 THEN 0 - 1 ELSE 0

ReinhardSample(v) ==
    LET n == 255 * v
        d == 255 + v
    IN  ClampU8(IF 2 * (n % d) = d /\ ReinhardDev(v) < 0 THEN n \div d
                ELSE MathRound(n, d))

toneMapping(imageData) ==
    IF ToneMappingApplies(imageData.data)
    THEN [imageData EXCEPT !.data =
            [i \in DOMAIN imageData.data |->
                IF i % 4 = 3 THEN imageData.data[i]
                ELSE ReinhardSample(imageData.data[i])]]
    ELSE imageData


(*------------------------ intelligentDenoising ---------------------------*)
(* sumX^2 + sumY^2 of the Sobel sums over the three colour channels *)
SobelSquare(tempData, w, h, x, y) ==
    LET T(yy, xx, c) == tempData[(yy * w + xx) * 4 + c]
        gx == [c \in 1..3 |->
                 T(y - 1, x + 1, c - 1) - T(y - 1, x - 1, c - 1)
                 + 2 * T(y, x + 1, c - 1) - 2 * T(y, x - 1, c - 1)
                 + T(y + 1, x + 1, c - 1) - T(y + 1, x - 1, c - 1)]
        gy == [c \in 1..3 |->
                 T(y + 1, x - 1, c - 1) - T(y - 1, x - 1, c - 1)
                 + 2 * T(y + 1, x, c - 1) - 2 * T(y - 1, x, c - 1)
                 + T(y + 1, x + 1, c - 1) - T(y - 1, x + 1, c - 1)]
        sumX == SumTo(gx, 3)
        sumY == SumTo(gy, 3)
    IN  sumX * sumX + sumY * sumY

(***************************************************************************)
(* edgeMap[idx] = Math.min(1, Math.sqrt(n) / 1200) is stored in a          *)
(* Float32Array, and "edgeValue > 0.3" compares that float with the double *)
(* 0.3.  The floats next to 0.3 are 10066329 * 2^-25 (below the double)    *)
(* and 10066330 * 2^-25 (above it), so the comparison holds iff the stored *)
(* float is at least the latter, iff sqrt(n) / 1200 is at least            *)
(* 10066329.5 * 2^-25, iff n >= 129599.9975, iff n >= 360^2: the magnitude *)
(* 360 / 1200 itself is stored as a float above the double 0.3.            *)
(***************************************************************************)
edgeSkipRoot == 360

EdgeSkipsAsDouble(n) == n > edgeSkipRoot * edgeSkipRoot

EdgeSkips(n) == n >= edgeSkipRoot * edgeSkipRoot

(* the edge value of a pixel that is not skipped (n < 360^2), in units of  *)
(* 1 / 120000: floor(100 sqrt(n)) / (100 * 1200)                           *)
EdgeValue120k(n) == ISqrt(10000 * n)

(* Math.max(1, Math.floor(2 * (1 - edgeValue))) *)
KernelRadius(n) == Max(1, (2 * (120000 - EdgeValue120k(n))) \div 120000)

(* blendFactor = Math.max(0.3, 1 - edgeValue * 2), in units of 1/120000 *)
BlendFactorAtFloor(n) == 36000

BlendFactorRising(n) == Min(120000, 36000 + 2 * EdgeValue120k(n))

BlendFactor120k(n) == Max(36000, 120000 - 2 * EdgeValue120k(n))

(* floor(a * b / 10^6) for 0 <= a, b <= 10^6 *)
MulMicro(a, b) == (a * (b \div 1000) + (a * (b % 1000)) \div 1000) \div 1000

(* Math.exp(-2^k / 30), k = 0..7, in millionths *)
expNegPow2 == <<967216, 935507, 875173, 765928, 586646, 344154, 118442, 14028>>

(* intensityWeight = Math.exp(-pixelDiff / 30), in millionths *)
RECURSIVE ExpNegOver30(_, _)
ExpNegOver30(d, k) ==
    IF d = 0 \/ k > 8 THEN 1000000
    ELSE IF d % 2 = 1 THEN MulMicro(expNegPow2[k], ExpNegOver30(d \div 2, k + 1))
    ELSE ExpNegOver30(d \div 2, k + 1)

(* 10^6 * Math.sqrt(d2): ten-thousandths by bisection, one Newton step *)
SqrtMicro(d2) ==
    LET s0 == ISqrt(d2 * 100000000)
    IN  IF s0 = 0 THEN 0
        ELSE 100 * s0 + (100 * (d2 * 100000000 - s0 * s0)) \div (2 * s0)

(* spatialWeight = 1 / (1 + Math.sqrt(kx*kx + ky*ky)), in millionths *)
SpatialWeightNoCentre(kx, ky) ==
    IF kx = 0 /\ ky = 0 THEN 0
    ELSE LongDiv(1000000, 1000000 + SqrtMicro(kx * kx + ky * ky), 6)[1]

SpatialWeight(kx, ky) ==
    LongDiv(1000000, 1000000 + SqrtMicro(kx * kx + ky * ky), 6)[1]

(* One sample of the filter.  With d_i = t_i - t_0 the code's              *)
(* sum / weight is t_0 + SD / SW, SD = sum of d_i w_i, SW = sum of w_i;    *)
(* the stored value is Math.round(t_0 + blendFactor * SD / SW).            *)
FilterWeights(tempData, w, h, x, y, c, radius) ==
    LET side == 2 * radius + 1
        idx == (y * w + x) * 4
    IN  [k \in 1..(side * side) |->
            LET kx == ((k - 1) % side) - radius
                ky == ((k - 1) \div side) - radius
                nx == x + kx
                ny == y + ky
            IN  IF InRange(w, h, nx, ny)
                THEN LET t == tempData[(ny * w + nx) * 4 + c]
                         pixelDiff == Abs(t - tempData[idx + c])
                         totalWeight == MulMicro(SpatialWeight(kx, ky),
                                                 ExpNegOver30(pixelDiff, 1))
                     IN  <<(t - tempData[idx + c]) * totalWeight, totalWeight>>
                ELSE <<0, 0>>]

(* filteredValue = weight > 0 ? sum / weight : tempData[idx + c], blended  *)
(* with the original and rounded                                           *)
DenoiseBlend(orig, SD, weight, B) ==
    IF weight > 0
    THEN LET R6 == LongDiv(SD, weight, 6)[1]
             r1 == R6 \div 1000
             r0 == R6 % 1000
             b1 == B \div 1000
             b0 == B % 1000
             P == b1 * r1 + (b1 * r0 + b0 * r1 + (b0 * r0) \div 1000) \div 1000
         IN  ClampU8(orig + MathRound(P, 120000))
    ELSE orig

DenoiseSample(tempData, w, h, x, y, c, n) ==
    LET radius == KernelRadius(n)
        side == 2 * radius + 1
        ws == FilterWeights(tempData, w, h, x, y, c, radius)
        SD == SumTo([k \in 1..(side * side) |-> ws[k][1]], side * side)
        weight == SumTo([k \in 1..(side * side) |-> ws[k][2]], side * side)
        orig == tempData[(y * w + x) * 4 + c]
    IN  DenoiseBlend(orig, SD, weight, BlendFactor120k(n))

intelligentDenoising(imageData) ==
    LET tempData == imageData.data
        w == imageData.width
        h == imageData.height
    IN  [imageData EXCEPT !.data =
          [i \in DOMAIN tempData |->
            LET p == i \div 4
                c == i % 4
                x == p % w
                y == p \div w
            IN  IF c < 3 /\ IsInterior(w, h, x, y)
                THEN LET n == SobelSquare(tempData, w, h, x, y)
                     IN  IF EdgeSkips(n) THEN tempData[i]
                         ELSE DenoiseSample(tempData, w, h, x, y, c, n)
                ELSE tempData[i]]]


(***************************************************************************)
(* Input images.  An image is drawn from a family: a size, one of four     *)
(* patterns and two colours of a palette that holds black, white,          *)
(* mid-grey, two greys whose step of 30 makes an edge magnitude of         *)
(* exactly 0.3, and two colours with a hue (three pixels of the first and  *)
(* six of the second average a brightness of exactly 100).  Alpha varies   *)
(* from pixel to pixel.                                                    *)
(***************************************************************************)
MaxDim == 3

Palette ==
    << <<0, 0, 0>>, <<255, 255, 255>>, <<128, 128, 128>>, <<100, 100, 100>>,
       <<130, 130, 130>>, <<200, 60, 20>>, <<110, 100, 100>> >>

Patterns == {"uniform", "vsplit", "checker", "dot"}

AlphaOf(p) == <<255, 128, 0>>[(p % 3) + 1]

PatternPicksB(pattern, w, h, x, y) ==
    CASE pattern = "uniform" -> FALSE
      [] pattern = "vsplit" -> x > 0
      [] pattern = "checker" -> (x + y) % 2 = 1
      [] pattern = "dot" -> x = w \div 2 /\ y = h \div 2

MakeImage(w, h, pattern, a, b) ==
    [width |-> w, height |-> h,
     data |-> [i \in 0..(4 * w * h - 1) |->
                 LET p == i \div 4
                     col == IF PatternPicksB(pattern, w, h, p % w, p \div w)
                            THEN Palette[b] ELSE Palette[a]
                 IN  IF i % 4 = 3 THEN AlphaOf(p) ELSE col[(i % 4) + 1]]]

ImageParams ==
    {q \in (1..MaxDim) \X (1..MaxDim) \X Patterns \X (1..Len(Palette)) \X (1..Len(Palette)) :
        IF q[3] = "uniform" THEN q[4] = q[5] ELSE q[4] # q[5]}

ImageOfParams(q) == MakeImage(q[1], q[2], q[3], q[4], q[5])

(***************************************************************************)
(* The earlier revision of the core: simulateZeroDCE and simulateGAN.      *)
(***************************************************************************)
(* p * m for a pair p and 0 <= m < 2^10 *)
MulPairInt(p, m) ==
    <<p[1] * m + (p[2] * m) \div 1000000, (p[2] * m) % 1000000>>

Pow5Pair(x) ==
    MulPairInt(MulPairInt(MulPairInt(MulPairInt(<<0, x>>, x), x), x), x)

(* Math.min(255, Math.pow(v / 255, 0.6) * 255) stored in the clamped array *)
(* is the k with (2k-1)^5 <= 32 * 255^2 * v^3 < (2k+1)^5; the two sides    *)
(* are never equal (odd against even), so there is no tie.                 *)
RECURSIVE PowSampleBetween(_, _, _)
PowSampleBetween(X, lo, hi) ==
    IF hi - lo <= 1 THEN lo
    ELSE LET mid == (lo + hi) \div 2
         IN  IF LeqPair(Pow5Pair(2 * mid - 1), X) THEN PowSampleBetween(X, mid, hi)
             ELSE PowSampleBetween(X, lo, mid)

PowSample(v) ==
    LET X == MulPairInt(MulPairInt(MulPairInt(MulPairInt(MulPairInt(
                 <<0, 32 * v>>, v), v), 255), 255), 1)
    IN  PowSampleBetween(X, 0, 256)

simulateZeroDCE(imageData) ==
    [imageData EXCEPT !.data =
        [i \in DOMAIN imageData.data |->
            IF i % 4 = 3 THEN imageData.data[i] ELSE PowSample(imageData.data[i])]]

(* data[i] + (data[i] - avg) * 0.2 with avg = s / 3: the rational          *)
(* (18 v - s) / 15, never a tie                                            *)
SimSaturationSample(v, s) == ToUint8Clamped(18 * v - s, 15)

(* (v - 128) * 1.1 + 128 in doubles; 1.1 is the double 11/10 + 0.4 * 2^-52 *)
SimContrastSample(v) ==
    LET m == v - 128
        p1 == FlErr(10, 11 * m, 4 * Pow2(FlK - 52) * m)
        t == FlErr(10, 11 * m + 1280, p1)
    IN  ToUint8ClampedDev(11 * m + 1280, 10, t)

simulateGAN(imageData) ==
    [imageData EXCEPT !.data =
        [i \in DOMAIN imageData.data |->
            LET b0 == i - (i % 4)
                d == imageData.data
            IN  IF i % 4 = 3 THEN d[i]
                ELSE SimContrastSample(
                         SimSaturationSample(d[i], d[b0] + d[b0 + 1] + d[b0 + 2]))]]

(***************************************************************************)
(* The application: the hook useImageEnhancement (three revisions) calling *)
(* enhanceImage (two revisions), driven by the page's controls, the        *)
(* FileReader, the image loader and the progress timers.  JavaScript runs  *)
(* one callback at a time: "running" names the enhanceImage call whose     *)
(* load callback (and the continuation awaiting its promise) is executing. *)
(***************************************************************************)
MaxRuns == 2

Null == <<>>

Some(x) == <<x>>

NoImage == [width |-> 0, height |-> 0, data |-> <<>>]

NoUrl == [mime |-> <<"", "">>, decodable |-> FALSE, image |-> NoImage]

(* the files a user may drop: MIME type, size in MB, what the bytes decode to *)
Files ==
    << [type |-> <<"image", "jpeg">>, size |-> 2, decodable |-> TRUE,
        image |-> <<2, 2, "checker", 6, 7>>],
       [type |-> <<"image", "heic">>, size |-> 17, decodable |-> TRUE,
        image |-> <<2, 1, "vsplit", 6, 2>>],
       [type |-> <<"image", "jpeg">>, size |-> 1, decodable |-> FALSE,
        image |-> <<0, 0, "uniform", 1, 1>>],
       [type |-> <<"image", "webp">>, size |-> 1, decodable |-> TRUE,
        image |-> <<0, 2, "uniform", 1, 1>>],
       [type |-> <<"image", "gif">>, size |-> 1, decodable |-> TRUE,
        image |-> <<1, 1, "uniform", 3, 3>>],
       [type |-> <<"application", "pdf">>, size |-> 1, decodable |-> FALSE,
        image |-> <<0, 0, "uniform", 1, 1>>],
       [type |-> <<"image", "png">>, size |-> 25, decodable |-> TRUE,
        image |-> <<1, 1, "uniform", 2, 2>>] >>

FileIds == 1..Len(Files)

(* ImageUploader passes on only files whose type matches 'image.*' *)
UploaderAccepts(f) == Files[f].type[1] = "image"

(* reader.readAsDataURL(file): the data URL carries the type and the bytes *)
DataUrlOf(f) ==
    [mime |-> Files[f].type, decodable |-> Files[f].decodable,
     image |-> IF Files[f].decodable THEN ImageOfParams(Files[f].image)
               ELSE NoImage]

(* canvas.toDataURL('image/jpeg', 0.9): a JPEG has no alpha channel; the   *)
(* loss of the compression is not modelled                                 *)
toDataURL(canvas) ==
    [mime |-> <<"image", "jpeg">>, decodable |-> TRUE,
     image |-> [canvas EXCEPT !.data =
                  [i \in DOMAIN canvas.data |->
                      IF i % 4 = 3 THEN 255 ELSE canvas.data[i]]]]

validTypes ==
    {<<"image", "jpeg">>, <<"image", "png">>, <<"image", "webp">>,
     <<"image", "heic">>, <<"image", "heif">>}

MaxSizeMB(rev) == IF rev = 2 THEN 20 ELSE 15

(* validateImage: the message it sets, or Null when the file is accepted *)
validateImageTypeOnly(rev, f) ==
    IF Files[f].type \notin validTypes THEN Some("Unsupported file type")
    ELSE Null

validateImage(rev, f) ==
    IF Files[f].type \notin validTypes THEN Some("Unsupported file type")
    ELSE IF Files[f].size > MaxSizeMB(rev) THEN Some("Image size is too large")
    ELSE Null

ProgressCap(rev) == IF rev = 2 THEN 950 ELSE 900

(* Math.random() * 5, in tenths of a percent *)
ProgressSteps == {0, 49}

VARIABLES coreRev, hookRev, originalImage, originalFile, enhancedImage,
          isProcessing, error, processingProgress, processingStartTime,
          processingDuration, runs, calls, running

vars == <<coreRev, hookRev, originalImage, originalFile, enhancedImage,
          isProcessing, error, processingProgress, processingStartTime,
          processingDuration, runs, calls, running>>

hookVars == <<originalImage, originalFile, enhancedImage, isProcessing, error,
              processingProgress, processingStartTime, processingDuration>>

RunIds == 1..MaxRuns

IdleRun == [kind |-> "none", file |-> 0, phase |-> "idle", timer |-> FALSE]

IdleCall ==
    [pc |-> "idle", url |-> NoUrl, ctx |-> FALSE, canvas |-> NoImage,
     imageData |-> NoImage, arg |-> NoImage, promise |-> "none",
     result |-> Null, log |-> <<>>]

hasResult == enhancedImage # Null /\ originalImage # Null

(* the stages enhanceImage applies, in the order of its statements *)
Pipeline(rev) ==
    IF rev = 1 THEN <<"simulateZeroDCE", "simulateGAN">>
    ELSE <<"enhanceZeroDCE", "enhanceWithGAN", "intelligentDenoising", "toneMapping">>

Last(seq) == seq[Len(seq)]

Init ==
    /\ coreRev \in {1, 2}
    /\ hookRev \in {1, 2, 3}
    /\ originalImage = Null
    /\ originalFile = Null
    /\ enhancedImage = Null
    /\ isProcessing = FALSE
    /\ error = Null
    /\ processingProgress = 0
    /\ processingStartTime = Null
    /\ processingDuration = Null
    /\ runs = [r \in RunIds |-> IdleRun]
    /\ calls = [r \in RunIds |-> IdleCall]
    /\ running = 0

(*----------------------------- enhanceImage ------------------------------*)
(* new Promise(...); img.src = imageUrl *)
enhanceImage(i, imageUrl) ==
    [calls EXCEPT ![i] = [IdleCall EXCEPT !.pc = "loading", !.url = imageUrl,
                                          !.promise = "pending"]]

(* createCanvasWithImage: a canvas of the image's size; drawImage copies   *)
(* the pixels when a 2D context exists, else the canvas stays transparent  *)
createCanvasWithImage(image, ctx) ==
    [image EXCEPT !.data = [k \in DOMAIN image.data |->
                               IF ctx THEN image.data[k] ELSE 0]]

(* ctx.getImageData(0, 0, width, height): a fresh buffer holding a copy of *)
(* the canvas; it throws IndexSizeError when width or height is zero       *)
getImageDataThrows(canvas) == canvas.width = 0 \/ canvas.height = 0

getImageDataShared(canvas) ==
    LET others == {j \in RunIds : calls[j].imageData # NoImage}
    IN  IF others # {} THEN calls[CHOOSE j \in others : TRUE].imageData ELSE canvas

getImageData(canvas) == canvas

(* the statement that follows a stage in the load callback *)
StageAfterSwapped(name) ==
    CASE name = "enhanceZeroDCE" -> "intelligentDenoising"
      [] name = "intelligentDenoising" -> "enhanceWithGAN"
      [] name = "enhanceWithGAN" -> "toneMapping"
      [] name = "simulateZeroDCE" -> "simulateGAN"
      [] OTHER -> "encode"

StageAfterThrowing(name) ==
    CASE name = "enhanceZeroDCE" -> "enhanceWithGAN"
      [] name = "enhanceWithGAN" -> "intelligentDenoising"
      [] name = "intelligentDenoising" -> "threw"
      [] name = "simulateZeroDCE" -> "simulateGAN"
      [] OTHER -> "encode"

StageAfter(name) ==
    CASE name = "enhanceZeroDCE" -> "enhanceWithGAN"
      [] name = "enhanceWithGAN" -> "intelligentDenoising"
      [] name = "intelligentDenoising" -> "toneMapping"
      [] name = "simulateZeroDCE" -> "simulateGAN"
      [] OTHER -> "encode"

(* a stage writes into the ImageData it was passed: the buffer of the call *)
StageWriteDithered(c, out) ==
    [c EXCEPT !.imageData =
        [out EXCEPT !.data = [k \in DOMAIN out.data |->
            IF k = 0 THEN (out.data[k] + processingProgress) % 256 ELSE out.data[k]]]]

StageWriteThrough(c, out) == [c EXCEPT !.imageData = out, !.canvas = out]

StageWrite(c, out) == [c EXCEPT !.imageData = out]

(* every stage ends with "return imageData": the object it was passed *)
ArgumentAfterCall(c) == c.imageData

(* img.onload, up to the first stage *)
ImgOnload(i) ==
    /\ running = 0
    /\ calls[i].pc = "loading"
    /\ calls[i].url.decodable
    /\ \E ctx \in BOOLEAN :
        LET canvas == createCanvasWithImage(calls[i].url.image, ctx)
            c == [calls[i] EXCEPT !.ctx = ctx, !.canvas = canvas]
        IN  IF ~ctx
            THEN /\ calls' = [calls EXCEPT ![i] =
                        [c EXCEPT !.pc = "returned", !.promise = "rejected"]]
                 /\ running' = i
            ELSE IF getImageDataThrows(canvas)
            THEN IF coreRev = 1
                 THEN /\ calls' = [calls EXCEPT ![i] = [c EXCEPT !.pc = "threw"]]
                      /\ running' = 0
                 ELSE /\ calls' = [calls EXCEPT ![i] =
                             [c EXCEPT !.pc = "returned", !.promise = "rejected"]]
                      /\ running' = i
            ELSE /\ calls' = [calls EXCEPT ![i] =
                        [c EXCEPT !.pc = Pipeline(coreRev)[1],
                                  !.imageData = getImageData(canvas),
                                  !.log = <<"decode">>]]
                 /\ running' = i
    /\ UNCHANGED <<coreRev, hookRev, hookVars, runs>>

(* img.onerror *)
ImgOnerror(i) ==
    /\ running = 0
    /\ calls[i].pc = "loading"
    /\ ~calls[i].url.decodable
    /\ calls' = [calls EXCEPT ![i].pc = "returned", ![i].promise = "rejected"]
    /\ running' = i
    /\ UNCHANGED <<coreRev, hookRev, hookVars, runs>>

(* one stage call of the load callback *)
RunStage(i, name, out) ==
    /\ running = i
    /\ calls[i].pc = name
    /\ calls' = [calls EXCEPT ![i] =
            [StageWrite(calls[i], out) EXCEPT
                !.arg = calls[i].imageData,
                !.pc = StageAfter(name),
                !.log = Append(calls[i].log, name)]]
    /\ UNCHANGED <<coreRev, hookRev, hookVars, runs, running>>

EnhanceZeroDCEStage(i) ==
    RunStage(i, "enhanceZeroDCE", enhanceZeroDCE(calls[i].imageData))

EnhanceWithGANStage(i) ==
    RunStage(i, "enhanceWithGAN", enhanceWithGAN(calls[i].imageData))

IntelligentDenoisingStage(i) ==
    RunStage(i, "intelligentDenoising", intelligentDenoising(calls[i].imageData))

ToneMappingStage(i) ==
    RunStage(i, "toneMapping", toneMapping(calls[i].imageData))

SimulateZeroDCEStage(i) ==
    RunStage(i, "simulateZeroDCE", simulateZeroDCE(calls[i].imageData))

SimulateGANStage(i) ==
    RunStage(i, "simulateGAN", simulateGAN(calls[i].imageData))

(* ctx.putImageData(result, 0, 0); resolve(canvas.toDataURL(...)) *)
PutAndResolve(i) ==
    /\ running = i
    /\ calls[i].pc = "encode"
    /\ calls' = [calls EXCEPT ![i] =
            [calls[i] EXCEPT !.canvas = calls[i].imageData,
                             !.result = Some(toDataURL(calls[i].imageData)),
                             !.promise = "resolved",
                             !.pc = "returned",
                             !.log = Append(calls[i].log, "encode")]]
    /\ UNCHANGED <<coreRev, hookRev, hookVars, runs, running>>

(*-------------------------- useImageEnhancement --------------------------*)
ErrReading == "Error reading the image file. Please try again."

ErrEnhancing == "Error enhancing image. Please try another image."

(* the next unused invocation slot *)
FreeSlot(r) ==
    /\ runs[r].phase = "idle"
    /\ \A q \in RunIds : q < r => runs[q].phase # "idle"

StartRun(r, kind, f, phase, timer) ==
    [runs EXCEPT ![r] = [kind |-> kind, file |-> f, phase |-> phase, timer |-> timer]]

(* setInterval callback: prev + Math.random() * 5, held at the cap *)
TickValue(rev, prev, inc) ==
    IF prev + inc >= ProgressCap(rev) THEN ProgressCap(rev) ELSE prev + inc

(* processImage(file), first revision: no validation *)
ProcessImage1(r, f) ==
    /\ hookRev = 1
    /\ error' = Null
    /\ isProcessing' = TRUE
    /\ runs' = StartRun(r, "process", f, "reading", FALSE)
    /\ UNCHANGED <<originalImage, originalFile, enhancedImage, processingProgress,
                   processingStartTime, processingDuration>>

(* processImage(file), second revision: validateImage with the 20 MB cap *)
ProcessImage2(r, f) ==
    /\ hookRev = 2
    /\ enhancedImage' = Null
    /\ processingProgress' = 0
    /\ error' = validateImage(hookRev, f)
    /\ IF validateImage(hookRev, f) # Null
       THEN /\ runs' = StartRun(r, "process", f, "done", FALSE)
            /\ UNCHANGED originalFile
       ELSE /\ runs' = StartRun(r, "process", f, "reading", FALSE)
            /\ originalFile' = Some(f)
    /\ UNCHANGED <<originalImage, isProcessing, processingStartTime, processingDuration>>

(* processImage(file), third revision: validateImage with the 15 MB cap *)
ProcessImage3(r, f) ==
    /\ hookRev = 3
    /\ enhancedImage' = Null
    /\ processingProgress' = 0
    /\ error' = validateImage(hookRev, f)
    /\ IF validateImage(hookRev, f) # Null
       THEN /\ runs' = StartRun(r, "process", f, "done", FALSE)
            /\ UNCHANGED isProcessing
       ELSE /\ runs' = StartRun(r, "process", f, "reading", FALSE)
            /\ isProcessing' = TRUE
    /\ UNCHANGED <<originalImage, originalFile, processingStartTime, processingDuration>>

(* the uploader is rendered only while there is no original image *)
ProcessImage(r, f) ==
    /\ running = 0
    /\ FreeSlot(r)
    /\ originalImage = Null
    /\ UploaderAccepts(f)
    /\ \/ ProcessImage1(r, f)
       \/ ProcessImage2(r, f)
       \/ ProcessImage3(r, f)
    /\ UNCHANGED <<coreRev, hookRev, calls, running>>

(* enhanceImageFromDataUrl(dataUrl) up to its await (second revision) *)
enhanceImageFromDataUrl(r, kind, f, dataUrl) ==
    /\ isProcessing' = TRUE
    /\ processingProgress' = 0
    /\ processingStartTime' = Some("now")
    /\ error' = Null
    /\ runs' = StartRun(r, kind, f, "enhancing", TRUE)
    /\ calls' = enhanceImage(r, dataUrl)

(* reader.onload *)
ReaderOnload(r) ==
    /\ running = 0
    /\ runs[r].phase = "reading"
    /\ \E result \in {Null, Some(DataUrlOf(runs[r].file))} :
        IF result = Null
        THEN /\ runs' = [runs EXCEPT ![r].phase = "done"]
             /\ UNCHANGED <<hookVars, calls>>
        ELSE /\ originalImage' = result
             /\ CASE hookRev = 1 ->
                      /\ runs' = [runs EXCEPT ![r].phase = "delay"]
                      /\ UNCHANGED <<originalFile, enhancedImage, isProcessing, error,
                                     processingProgress, processingStartTime,
                                     processingDuration, calls>>
                  [] hookRev = 2 ->
                      /\ enhanceImageFromDataUrl(r, "process", runs[r].file, result[1])
                      /\ UNCHANGED <<originalFile, enhancedImage, processingDuration>>
                  [] hookRev = 3 ->
                      /\ runs' = [runs EXCEPT ![r].phase = "enhancing", ![r].timer = TRUE]
                      /\ calls' = enhanceImage(r, result[1])
                      /\ UNCHANGED <<originalFile, enhancedImage, isProcessing, error,
                                     processingProgress, processingStartTime,
                                     processingDuration>>
    /\ UNCHANGED <<coreRev, hookRev, running>>

(* reader.onerror *)
ReaderOnerror(r) ==
    /\ running = 0
    /\ runs[r].phase = "reading"
    /\ error' = Some(ErrReading)
    /\ isProcessing' = FALSE
    /\ runs' = [runs EXCEPT ![r].phase = "done"]
    /\ UNCHANGED <<coreRev, hookRev, originalImage, originalFile, enhancedImage,
                   processingProgress, processingStartTime, processingDuration,
                   calls, running>>

(* first revision: the 1500 ms timeout elapses, enhanceImage is called *)
DelayElapsed(r) ==
    /\ running = 0
    /\ runs[r].phase = "delay"
    /\ runs' = [runs EXCEPT ![r].phase = "enhancing"]
    /\ calls' = enhanceImage(r, DataUrlOf(runs[r].file))
    /\ UNCHANGED <<coreRev, hookRev, hookVars, running>>

(* the progress interval of run r fires *)
ProgressTick(r) ==
    /\ running = 0
    /\ runs[r].timer
    /\ \E inc \in ProgressSteps :
        processingProgress' = TickValue(hookRev, processingProgress, inc)
    /\ UNCHANGED <<coreRev, hookRev, originalImage, originalFile, enhancedImage,
                   isProcessing, error, processingStartTime, processingDuration,
                   runs, calls, running>>

(* the code after "await enhanceImage(...)" when the promise is resolved *)
AwaitResolved(r) ==
    /\ running = r
    /\ runs[r].phase = "enhancing"
    /\ calls[r].pc = "returned"
    /\ calls[r].promise = "resolved"
    /\ enhancedImage' = calls[r].result
    /\ isProcessing' = FALSE
    /\ processingProgress' = IF hookRev = 1 THEN processingProgress ELSE 1000
    /\ processingDuration' = IF hookRev = 2 THEN Some("ms") ELSE processingDuration
    /\ runs' = [runs EXCEPT ![r].phase = "done", ![r].timer = FALSE]
    /\ running' = 0
    /\ UNCHANGED <<coreRev, hookRev, originalImage, originalFile, error,
                   processingStartTime, calls>>

(* the catch and finally blocks when the promise is rejected (the second   *)
(* revision's interval is out of the catch block's reach)                  *)
AwaitRejectedClearing(r) ==
    /\ running = r
    /\ runs[r].phase = "enhancing"
    /\ calls[r].pc = "returned"
    /\ calls[r].promise = "rejected"
    /\ error' = Some(ErrEnhancing)
    /\ originalImage' = Null
    /\ isProcessing' = FALSE
    /\ runs' = [runs EXCEPT ![r].phase = "done",
                            ![r].timer = IF hookRev = 2 THEN @ ELSE FALSE]
    /\ running' = 0
    /\ UNCHANGED <<coreRev, hookRev, originalFile, enhancedImage,
                   processingProgress, processingStartTime, processingDuration, calls>>

AwaitRejected(r) ==
    /\ running = r
    /\ runs[r].phase = "enhancing"
    /\ calls[r].pc = "returned"
    /\ calls[r].promise = "rejected"
    /\ error' = Some(ErrEnhancing)
    /\ isProcessing' = FALSE
    /\ runs' = [runs EXCEPT ![r].phase = "done",
                            ![r].timer = IF hookRev = 2 THEN @ ELSE FALSE]
    /\ running' = 0
    /\ UNCHANGED <<coreRev, hookRev, originalImage, originalFile, enhancedImage,
                   processingProgress, processingStartTime, processingDuration, calls>>

(* resetImages, from the "Try Another Image" button *)
ResetImages ==
    /\ running = 0
    /\ hasResult
    /\ ~isProcessing
    /\ originalImage' = Null
    /\ enhancedImage' = Null
    /\ error' = Null
    /\ originalFile' = IF hookRev = 2 THEN Null ELSE originalFile
    /\ processingProgress' = IF hookRev = 1 THEN processingProgress ELSE 0
    /\ processingStartTime' = IF hookRev = 2 THEN Null ELSE processingStartTime
    /\ processingDuration' = IF hookRev = 2 THEN Null ELSE processingDuration
    /\ UNCHANGED <<coreRev, hookRev, isProcessing, runs, calls, running>>

(* reprocessImage, from the "Re-enhance" button (second revision) *)
ReprocessImage(r) ==
    /\ running = 0
    /\ hookRev = 2
    /\ FreeSlot(r)
    /\ hasResult
    /\ ~isProcessing
    /\ enhanceImageFromDataUrl(r, "reprocess", 0, originalImage[1])
    /\ UNCHANGED <<coreRev, hookRev, originalImage, originalFile, enhancedImage,
                   processingDuration, running>>

Next ==
    \E r \in RunIds :
        \/ \E f \in FileIds : ProcessImage(r, f)
        \/ ReaderOnload(r)
        \/ ReaderOnerror(r)
        \/ DelayElapsed(r)
        \/ ProgressTick(r)
        \/ ImgOnload(r)
        \/ ImgOnerror(r)
        \/ EnhanceZeroDCEStage(r)
        \/ EnhanceWithGANStage(r)
        \/ IntelligentDenoisingStage(r)
        \/ ToneMappingStage(r)
        \/ SimulateZeroDCEStage(r)
        \/ SimulateGANStage(r)
        \/ PutAndResolve(r)
        \/ AwaitResolved(r)
        \/ AwaitRejected(r)
        \/ ResetImages
        \/ ReprocessImage(r)

Spec == Init /\ [][Next]_vars

(***************************************************************************)
(* The stage functions on their own: a buffer of the family, decoded, is   *)
(* handed to one stage of the load callback, which runs on from there.     *)
(***************************************************************************)
StageInit ==
    /\ coreRev \in {1, 2}
    /\ hookRev = 1
    /\ originalImage = Null
    /\ originalFile = Null
    /\ enhancedImage = Null
    /\ isProcessing = FALSE
    /\ error = Null
    /\ processingProgress = 0
    /\ processingStartTime = Null
    /\ processingDuration = Null
    /\ runs = [r \in RunIds |-> IdleRun]
    /\ running = 1
    /\ \E q \in ImageParams, k \in 1..4 :
        /\ k <= Len(Pipeline(coreRev))
        /\ calls = [r \in RunIds |->
              IF r = 1
              THEN [IdleCall EXCEPT
                      !.pc = Pipeline(coreRev)[k],
                      !.url = [mime |-> <<"image", "png">>, decodable |-> TRUE,
                               image |-> ImageOfParams(q)],
                      !.ctx = TRUE,
                      !.canvas = ImageOfParams(q),
                      !.imageData = ImageOfParams(q),
                      !.promise = "pending",
                      !.log = <<"decode">>]
              ELSE IdleCall]

StageNext ==
    \E i \in RunIds :
        \/ EnhanceZeroDCEStage(i)
        \/ EnhanceWithGANStage(i)
        \/ IntelligentDenoisingStage(i)
        \/ ToneMappingStage(i)
        \/ SimulateZeroDCEStage(i)
        \/ SimulateGANStage(i)
        \/ PutAndResolve(i)

StageSpec == StageInit /\ [][StageNext]_vars

(***************************************************************************)
(* Properties.                                                             *)
(***************************************************************************)
StageNames ==
    {"enhanceZeroDCE", "enhanceWithGAN", "intelligentDenoising", "toneMapping",
     "simulateZeroDCE", "simulateGAN"}

(* the call's last completed step is the stage called name *)
JustRan(c, name) == Len(c.log) > 0 /\ Last(c.log) = name

PixelsOf(image) == 0..(image.width * image.height - 1)

ColourIndices(image) == {k \in DOMAIN image.data : k % 4 # 3}

AlphaIndices(image) == {k \in DOMAIN image.data : k % 4 = 3}

UniformColour(image, v) == \A k \in ColourIndices(image) : image.data[k] = v

FullLog ==
    <<"decode", "enhanceZeroDCE", "enhanceWithGAN", "intelligentDenoising",
      "toneMapping", "encode">>

(* C2: for every input buffer and every pixel, the alpha sample (index     *)
(* 4k+3) of the buffer after each stage and after the whole pipeline       *)
(* equals the alpha sample of the input: no stage writes an alpha sample.  *)
C2_AlphaPreserved ==
    \A i \in RunIds :
        Len(calls[i].log) > 0 =>
            /\ DOMAIN calls[i].imageData.data = DOMAIN calls[i].url.image.data
            /\ \A k \in AlphaIndices(calls[i].imageData) :
                  calls[i].imageData.data[k] = calls[i].url.image.data[k]

(* the four stages have run on a buffer with a translucent pixel and       *)
(* changed its colours                                                     *)
C2_Witness ==
    \E i \in RunIds :
        /\ coreRev = 2
        /\ calls[i].pc = "encode"
        /\ Len(calls[i].log) = 5
        /\ calls[i].imageData.data # calls[i].url.image.data
        /\ \E k \in AlphaIndices(calls[i].imageData) :
              /\ calls[i].url.image.data[k] = 128
              /\ calls[i].imageData.data[k] = 128

(* C3: after every stage and for every input buffer, all-black, all-white  *)
(* and all-mid-grey images included, every stored sample is an integer in  *)
(* 0..255.                                                                 *)
C3_SamplesInRange ==
    \A i \in RunIds :
        \A k \in DOMAIN calls[i].imageData.data :
            calls[i].imageData.data[k] \in 0..255

(* the sharpening stage has run on a white dot on black, where the kernel  *)
(* sum exceeds 255 at the dot                                              *)
C3_Witness ==
    \E i \in RunIds :
        /\ JustRan(calls[i], "enhanceWithGAN")
        /\ calls[i].arg.width = 3 /\ calls[i].arg.height = 3
        /\ calls[i].arg.data[16] = 255
        /\ \A k \in ColourIndices(calls[i].arg) :
              k \div 4 # 4 => calls[i].arg.data[k] = 0
        /\ calls[i].imageData.data[16] = 255

(* r + g + b of pixel p, and the total over the first n pixels *)
ChannelSum(image, p) ==
    image.data[4 * p] + image.data[4 * p + 1] + image.data[4 * p + 2]

RECURSIVE TotalChannelSum(_, _)
TotalChannelSum(image, n) ==
    IF n <= 0 THEN 0
    ELSE ChannelSum(image, n - 1) + TotalChannelSum(image, n - 1)

(* average brightness (R+G+B)/3 at most 100 and maximum at most 240 *)
DimImage(image) ==
    LET n == image.width * image.height
    IN  /\ TotalChannelSum(image, n) <= 3 * 100 * n
        /\ \A p \in PixelsOf(image) : ChannelSum(image, p) <= 3 * 240

(* C5: tone mapping leaves the buffer unchanged, sample for sample,        *)
(* whenever the average per-pixel brightness (R+G+B)/3 over the image is   *)
(* at most 100 and the maximum per-pixel brightness is at most 240.        *)
C5_DimImageUnchanged ==
    \A i \in RunIds :
        (JustRan(calls[i], "toneMapping") /\ DimImage(calls[i].arg))
            => calls[i].imageData.data = calls[i].arg.data

(* C6: denoising never modifies a pixel whose computed edge magnitude,     *)
(* sqrt(sumX^2 + sumY^2) / 1200, is greater than or equal to 0.3: its      *)
(* three colour samples after the stage equal those before it.             *)
C6_EdgePixelsUntouched ==
    \A i \in RunIds :
        JustRan(calls[i], "intelligentDenoising") =>
            LET a == calls[i].arg
            IN  \A p \in PixelsOf(a) :
                    (/\ IsInterior(a.width, a.height, p % a.width, p \div a.width)
                     /\ 100 * SobelSquare(a.data, a.width, a.height,
                                          p % a.width, p \div a.width)
                            >= 9 * 1200 * 1200)
                        => \A c \in 0..2 :
                              calls[i].imageData.data[4 * p + c] = a.data[4 * p + c]

(* denoising has run on an image with a pixel whose edge magnitude is      *)
(* exactly 0.3                                                             *)
C6_Witness ==
    \E i \in RunIds :
        /\ JustRan(calls[i], "intelligentDenoising")
        /\ \E p \in PixelsOf(calls[i].arg) :
              LET a == calls[i].arg
              IN  /\ IsInterior(a.width, a.height, p % a.width, p \div a.width)
                  /\ 100 * SobelSquare(a.data, a.width, a.height,
                                       p % a.width, p \div a.width)
                         = 9 * 1200 * 1200
                  /\ \A c \in 0..2 :
                        calls[i].imageData.data[4 * p + c] = a.data[4 * p + c]

(* C7: curve enhancement maps an all-black buffer to an all-black buffer   *)
(* and an all-white buffer to an all-white buffer, for every image size,   *)
(* through the three curve iterations and the local-contrast pass.         *)
C7_BlackAndWhiteFixed ==
    \A i \in RunIds :
        \A v \in {0, 255} :
            (JustRan(calls[i], "enhanceZeroDCE") /\ UniformColour(calls[i].arg, v))
                => calls[i].imageData.data = calls[i].arg.data

(* curve enhancement has run on an all-white image with interior pixels *)
C7_Witness ==
    \E i \in RunIds :
        /\ JustRan(calls[i], "enhanceZeroDCE")
        /\ UniformColour(calls[i].arg, 255)
        /\ calls[i].arg.width = 3 /\ calls[i].arg.height = 3
        /\ UniformColour(calls[i].imageData, 255)

IsPrefix(s, t) == Len(s) <= Len(t) /\ \A k \in 1..Len(s) : s[k] = t[k]

InLoadCallback(c) == c.pc \in StageNames \cup {"encode"}

(* C1: in enhanceImage the four stages run strictly in the order curve     *)
(* enhancement, refinement, denoising, tone mapping: a stage starts only   *)
(* after the one before it has finished (no other callback runs meanwhile),*)
(* the first starts only after the image has been decoded into a buffer,   *)
(* and the result is encoded and the promise resolved only after tone      *)
(* mapping.                                                                *)
C1_StagesInOrder ==
    coreRev = 2 =>
        \A i \in RunIds :
            /\ IsPrefix(calls[i].log, FullLog)
            /\ InLoadCallback(calls[i]) =>
                  /\ Len(calls[i].log) >= 1
                  /\ FullLog[Len(calls[i].log) + 1] = calls[i].pc
                  /\ running = i
            /\ calls[i].imageData # NoImage => Len(calls[i].log) >= 1
            /\ (calls[i].promise = "resolved" \/ calls[i].result # Null) =>
                  calls[i].log = FullLog

(* a call has gone through the whole pipeline and resolved while another   *)
(* call is waiting for its image to load                                   *)
C1_Witness ==
    \E i, j \in RunIds :
        /\ coreRev = 2
        /\ calls[i].promise = "resolved"
        /\ calls[i].log = FullLog
        /\ calls[j].pc = "loading"

C8_ArgumentUnchanged ==
    \A i \in RunIds :
        (Len(calls[i].log) > 0 /\ Last(calls[i].log) \in StageNames)
            => ArgumentAfterCall(calls[i]).data = calls[i].arg.data

(* C8, amended: enhanceImage never changes what its caller handed it: the  *)
(* stages write in place into the ImageData copied out of the canvas by    *)
(* getImageData, and the canvas keeps the pixels of the image until the    *)
(* final putImageData.                                                     *)
C8_SourceKeptDuringStages ==
    \A i \in RunIds :
        InLoadCallback(calls[i]) => calls[i].canvas = calls[i].url.image

(* the stages have changed the buffer of a call while its canvas still     *)
(* holds the pixels of the image                                           *)
C8_Witness ==
    \E i \in RunIds :
        /\ calls[i].pc = "encode"
        /\ calls[i].imageData # calls[i].canvas
        /\ calls[i].canvas = calls[i].url.image

InvalidInput(c) ==
    \/ ~c.url.decodable
    \/ c.url.image.width = 0
    \/ c.url.image.height = 0
    \/ ~c.ctx

(* C9: when the input cannot be turned into a valid raster buffer (the     *)
(* image fails to load, it has zero width or height, or no 2D context is   *)
(* available), enhanceImage ends rejected, never resolved, and produces no *)
(* encoded result.                                                         *)
C9_InvalidInputRejected ==
    \A i \in RunIds :
        (calls[i].pc \in {"returned", "threw"} /\ InvalidInput(calls[i]))
            => /\ calls[i].promise = "rejected"
               /\ calls[i].result = Null

(* C10: when enhanceImage rejects during processImage, the hook ends with  *)
(* error set to a message, originalImage as it was (the uploaded image,    *)
(* when no other run was started), and no enhanced image stored.           *)
C10_RejectKeepsOriginal ==
    [][\A r \in RunIds :
          (/\ runs[r].phase = "enhancing"
           /\ calls[r].promise = "rejected"
           /\ runs'[r].phase = "done")
              => /\ error' # Null
                 /\ originalImage' = originalImage
                 /\ enhancedImage' = enhancedImage
                 /\ (\A q \in RunIds \ {r} : runs[q].phase = "idle")
                       => /\ originalImage' = Some(calls[r].url)
                          /\ enhancedImage' = Null]_vars

(* a run has ended with enhanceImage rejected: the error is set, the       *)
(* upload is still the original image and there is no enhanced image       *)
C10_Witness ==
    \E r \in RunIds :
        /\ runs[r].kind = "process"
        /\ runs[r].phase = "done"
        /\ calls[r].promise = "rejected"
        /\ error = Some(ErrEnhancing)
        /\ originalImage = Some(calls[r].url)
        /\ enhancedImage = Null

(* C11: in the revisions of the hook that validate (the second and the     *)
(* third), a processImage call with a file whose type is not JPEG, PNG,    *)
(* WebP, HEIC or HEIF, or whose size is above the cap (20 MB, 15 MB), sets *)
(* error, starts no file read and no enhancement, and leaves isProcessing  *)
(* and originalImage as they were.                                         *)
InvalidFile(f) ==
    \/ Files[f].type \notin validTypes
    \/ Files[f].size > MaxSizeMB(hookRev)

ProcessImageCalled(r) ==
    runs[r].phase = "idle" /\ runs'[r].phase # "idle" /\ runs'[r].kind = "process"

C11_InvalidFileRejected ==
    [][\A r \in RunIds :
          (hookRev \in {2, 3} /\ ProcessImageCalled(r) /\ InvalidFile(runs'[r].file))
          => /\ error' # Null
             /\ runs'[r].phase = "done"
             /\ calls' = calls
             /\ isProcessing' = isProcessing
             /\ originalImage' = originalImage]_vars

(* an oversized PNG was refused by the second revision, and nothing runs *)
C11_Witness ==
    /\ hookRev = 2
    /\ \E r \in RunIds :
          /\ runs[r].kind = "process"
          /\ Files[runs[r].file].size > MaxSizeMB(hookRev)
          /\ runs[r].phase = "done"
          /\ calls[r].pc = "idle"
    /\ error # Null
    /\ ~isProcessing
    /\ originalImage = Null

(* the stage functions by name, and the buffer a call holds after the      *)
(* first k entries of its log when nothing but its own image went into it  *)
ApplyStage(name, image) ==
    CASE name = "enhanceZeroDCE" -> enhanceZeroDCE(image)
      [] name = "enhanceWithGAN" -> enhanceWithGAN(image)
      [] name = "intelligentDenoising" -> intelligentDenoising(image)
      [] name = "toneMapping" -> toneMapping(image)
      [] name = "simulateZeroDCE" -> simulateZeroDCE(image)
      [] name = "simulateGAN" -> simulateGAN(image)
      [] OTHER -> image

RECURSIVE RunAlone(_, _, _)
RunAlone(image, stages, k) ==
    IF k = 0 THEN image
    ELSE CHOOSE out \in {ApplyStage(stages[k], prev) :
                            prev \in {RunAlone(image, stages, k - 1)}} : TRUE

(* for each revision of enhanceImage and each decodable file: the buffer   *)
(* after the first k stages of an invocation that runs alone               *)
AloneBuffers ==
    [rev \in {1, 2} |->
        [f \in {g \in FileIds : Files[g].decodable} |->
            [k \in 0..Len(Pipeline(rev)) |->
                RunAlone(DataUrlOf(f).image, Pipeline(rev), k)]]]

StagesDone(c) == Cardinality({k \in DOMAIN c.log : c.log[k] \in StageNames})

(* C12: enhanceImage invocations share no mutable state.  Whatever other   *)
(* invocations did before, between or after, the buffer an invocation      *)
(* holds inside its load callback, the canvas it ends with and the result  *)
(* it resolves with are those it produces from its own image when run      *)
(* alone, and until its putImageData its canvas holds its own image.       *)
C12_CallsIndependent ==
    \A i \in RunIds : \A f \in DOMAIN AloneBuffers[coreRev] :
        calls[i].url = DataUrlOf(f) =>
            LET alone == AloneBuffers[coreRev][f][StagesDone(calls[i])]
            IN  /\ InLoadCallback(calls[i]) =>
                      /\ calls[i].imageData = alone
                      /\ calls[i].canvas = calls[i].url.image
                /\ calls[i].promise = "resolved" =>
                      /\ StagesDone(calls[i]) = Len(Pipeline(coreRev))
                      /\ calls[i].canvas = alone
                      /\ calls[i].result = Some(toDataURL(alone))

(* two invocations on different images, the one started in the second run  *)
(* finished while the other is still inside its load callback              *)
C12_Witness ==
    /\ calls[2].promise = "resolved"
    /\ InLoadCallback(calls[1])
    /\ Len(calls[1].log) >= 2
    /\ calls[1].url.image # calls[2].url.image
    /\ calls[1].imageData # calls[1].url.image

(* the colour samples of the pixels in row 0, row H-1, column 0, column W-1 *)
BorderIndices(image) ==
    {k \in ColourIndices(image) :
        ~IsInterior(image.width, image.height,
                    (k \div 4) % image.width, (k \div 4) \div image.width)}

(* the buffer after the per-pixel step that precedes a neighbourhood pass  *)
PerPixelStep(name, data) ==
    CASE name = "enhanceZeroDCE" -> CurvePass(CurvePass(CurvePass(data)))
      [] name = "enhanceWithGAN" -> SaturationPass(data)
      [] OTHER -> data

(* the indices a neighbourhood pass reads: for x in 1..W-2, y in 1..H-2,   *)
(* offsets up to the radius, under the bounds test where the loop has one  *)
NeighbourReads(w, h, radius, guarded) ==
    LET offs == {q \in (0..(w - 1)) \X (0..(h - 1)) \X ((0 - radius)..radius)
                          \X ((0 - radius)..radius) \X (0..2) :
                    /\ IsInterior(w, h, q[1], q[2])
                    /\ guarded => InRange(w, h, q[1] + q[3], q[2] + q[4])}
    IN  {((q[2] + q[4]) * w + (q[1] + q[3])) * 4 + q[5] : q \in offs}

PassReads(name, w, h) ==
    CASE name = "intelligentDenoising" ->
             NeighbourReads(w, h, 1, FALSE) \cup NeighbourReads(w, h, 2, TRUE)
      [] OTHER -> NeighbourReads(w, h, 1, TRUE)

NeighbourStages == {"enhanceZeroDCE", "enhanceWithGAN", "intelligentDenoising"}

(* C13: after a stage with a neighbourhood pass (local contrast,           *)
(* sharpening, denoising) every colour sample of a border pixel holds what *)
(* the preceding per-pixel step produced (curve, saturation, or the input  *)
(* of the denoising); the indices the pass reads lie inside the buffer,    *)
(* and with W < 3 or H < 3 the pass reads and writes nothing.              *)
C13_BorderKept ==
    \A i \in RunIds : \A name \in NeighbourStages :
        JustRan(calls[i], name) =>
            LET in == calls[i].arg
                out == calls[i].imageData
                reads == PassReads(name, in.width, in.height)
            IN  /\ \A k \in BorderIndices(in) :
                      out.data[k] = PerPixelStep(name, in.data)[k]
                /\ reads \subseteq DOMAIN in.data
                /\ (in.width < 3 \/ in.height < 3) =>
                      /\ reads = {}
                      /\ BorderIndices(in) = ColourIndices(in)

(* a 3x3 image whose centre the sharpening pass rewrote, its border not    *)
(* uniform and equal to the saturation output                              *)
C13_Witness ==
    \E i \in RunIds :
        /\ JustRan(calls[i], "enhanceWithGAN")
        /\ calls[i].arg.width = 3 /\ calls[i].arg.height = 3
        /\ calls[i].imageData.data[16] # SaturationPass(calls[i].arg.data)[16]
        /\ calls[i].imageData.data[0] # calls[i].imageData.data[4]
        /\ calls[i].imageData.data[0] # calls[i].arg.data[0]

InteriorIndices(image) == ColourIndices(image) \ BorderIndices(image)

(* C14: after stage 2 every colour sample of an interior pixel is the      *)
(* sharpening blend computed from the buffer as the saturation step left   *)
(* it: both the 3x3 neighbourhood and the value blended with are read from *)
(* the post-saturation snapshot.                                           *)
C14_SharpenReadsSaturated ==
    \A i \in RunIds :
        JustRan(calls[i], "enhanceWithGAN") =>
            LET in == calls[i].arg
                saturated == SaturationPass(in.data)
            IN  \A k \in InteriorIndices(in) :
                    calls[i].imageData.data[k] =
                        SharpenSample(saturated, in.width, in.height,
                                      (k \div 4) % in.width,
                                      (k \div 4) \div in.width, k % 4)

(***************************************************************************)
(* The neighbourhood passes pixel by pixel.  The loops of the code visit   *)
(* the interior pixels in row-major order, writing data[idx + c] and       *)
(* reading the copy tempData; here the pixels are visited in any order.    *)
(***************************************************************************)
OrderWidth == 4

InteriorPixels(w, h) ==
    {q \in (0..(w - 1)) \X (0..(h - 1)) : IsInterior(w, h, q[1], q[2])}

PixelOrders(w, h) ==
    LET P == InteriorPixels(w, h)
        n == Cardinality(P)
    IN  {o \in [1..n -> P] : \A a, b \in 1..n : a # b => o[a] # o[b]}

(* the array the neighbourhood loops read: the copy, not the array written *)
ReadSourceInPlace(tempData, data) == data

ReadSource(tempData, data) == tempData

(* the value one loop body stores at data[idx + c] *)
PassSample(name, tempData, data, w, h, x, y, c) ==
    LET read == ReadSource(tempData, data)
    IN  CASE name = "enhanceZeroDCE" -> LocalContrastSample(read, w, h, x, y, c)
          [] name = "enhanceWithGAN" -> SharpenSample(read, w, h, x, y, c)
          [] name = "intelligentDenoising" ->
                 LET n == SobelSquare(tempData, w, h, x, y)
                 IN  IF EdgeSkips(n) THEN data[(y * w + x) * 4 + c]
                     ELSE DenoiseSample(read, w, h, x, y, c, n)

(* the first n pixels of the order have been processed *)
RECURSIVE PassInOrder(_, _, _, _, _, _, _)
PassInOrder(name, tempData, data, w, h, order, n) ==
    IF n = 0 THEN data
    ELSE CHOOSE out \in
           {[i \in DOMAIN prev |->
                IF i \div 4 = order[n][2] * w + order[n][1] /\ i % 4 < 3
                THEN PassSample(name, tempData, prev, w, h,
                                order[n][1], order[n][2], i % 4)
                ELSE prev[i]] :
              prev \in {PassInOrder(name, tempData, data, w, h, order, n - 1)}} : TRUE

(* a stage with its neighbourhood pass run in the given order *)
StageInOrder(name, imageData, order) ==
    LET pre == PerPixelStep(name, imageData.data)
        tempData == IF name = "enhanceWithGAN" THEN imageData.data ELSE pre
    IN  [imageData EXCEPT !.data =
            PassInOrder(name, tempData, pre, imageData.width, imageData.height,
                        order, Len(order))]

OrderedStage(i, name) ==
    \E order \in PixelOrders(calls[i].imageData.width, calls[i].imageData.height) :
        RunStage(i, name, StageInOrder(name, calls[i].imageData, order))

OrderedZeroDCE(i) == OrderedStage(i, "enhanceZeroDCE")

OrderedGAN(i) == OrderedStage(i, "enhanceWithGAN")

OrderedDenoising(i) == OrderedStage(i, "intelligentDenoising")

OrderInit ==
    /\ coreRev = 2
    /\ hookRev = 1
    /\ originalImage = Null
    /\ originalFile = Null
    /\ enhancedImage = Null
    /\ isProcessing = FALSE
    /\ error = Null
    /\ processingProgress = 0
    /\ processingStartTime = Null
    /\ processingDuration = Null
    /\ runs = [r \in RunIds |-> IdleRun]
    /\ running = 1
    /\ \E w \in 3..OrderWidth, pattern \in Patterns,
          a \in 1..Len(Palette), b \in 1..Len(Palette), k \in 1..3 :
        /\ IF pattern = "uniform" THEN a = b ELSE a # b
        /\ calls = [r \in RunIds |->
              IF r = 1
              THEN [IdleCall EXCEPT
                      !.pc = Pipeline(coreRev)[k],
                      !.url = [mime |-> <<"image", "png">>, decodable |-> TRUE,
                               image |-> MakeImage(w, 3, pattern, a, b)],
                      !.ctx = TRUE,
                      !.canvas = MakeImage(w, 3, pattern, a, b),
                      !.imageData = MakeImage(w, 3, pattern, a, b),
                      !.promise = "pending",
                      !.log = <<"decode">>]
              ELSE IdleCall]

OrderNext ==
    \E i \in RunIds :
        \/ OrderedZeroDCE(i)
        \/ OrderedGAN(i)
        \/ OrderedDenoising(i)

OrderSpec == OrderInit /\ [][OrderNext]_vars

(* C15: each neighbourhood pass (local contrast, sharpening, denoising     *)
(* with its edge map) reads only a copy that the pass never writes, so in  *)
(* whatever order the interior pixels are processed the stage ends with    *)
(* the buffer that processing every pixel from the untouched copy gives.   *)
C15_OrderIndependent ==
    \A i \in RunIds : \A name \in NeighbourStages :
        JustRan(calls[i], name) =>
            calls[i].imageData = ApplyStage(name, calls[i].arg)

(* a 4x3 image after the local-contrast pass rewrote both interior pixels, *)
(* each of which lies in the other's neighbourhood                         *)
C15_Witness ==
    \E i \in RunIds :
        /\ JustRan(calls[i], "enhanceZeroDCE")
        /\ calls[i].arg.width = 4
        /\ LET curved == PerPixelStep("enhanceZeroDCE", calls[i].arg.data)
           IN  /\ calls[i].imageData.data[20] # curved[20]
               /\ calls[i].imageData.data[24] # curved[24]

(* the Sobel sums (squared magnitude) of the interior pixels the filter    *)
(* processes, i.e. does not skip, in the buffer handed to the denoising    *)
FilteredEdges(image) ==
    {n \in {SobelSquare(image.data, image.width, image.height, q[1], q[2]) :
                q \in InteriorPixels(image.width, image.height)} : ~EdgeSkips(n)}

(* C16 as stated: for every pixel the filter modifies, the weight of the   *)
(* original sample, 1 - blendFactor, is at least 0.7 and the weight of the *)
(* filtered estimate, blendFactor, is at most 0.3.                         *)
C16_OriginalKeepsSeventyPercent ==
    \A i \in RunIds :
        JustRan(calls[i], "intelligentDenoising") =>
            \A n \in FilteredEdges(calls[i].arg) :
                /\ 120000 - BlendFactor120k(n) >= 84000
                /\ BlendFactor120k(n) <= 36000

(* C16: for every pixel the filter modifies, the weight of the filtered    *)
(* estimate, blendFactor = max(0.3, 1 - 2 * edge), is above 0.4 (the floor *)
(* 0.3 is never reached, pixels with edge above 0.3 being skipped), so the *)
(* original sample keeps less than 60% of the weight; it keeps none where  *)
(* the edge magnitude is 0.                                                *)
C16_OriginalKeepsUnderSixtyPercent ==
    \A i \in RunIds :
        JustRan(calls[i], "intelligentDenoising") =>
            \A n \in FilteredEdges(calls[i].arg) :
                /\ BlendFactor120k(n) > 48000
                /\ 120000 - BlendFactor120k(n) < 72000
                /\ n = 0 => BlendFactor120k(n) = 120000

(* a grey step of 28 across a 3x3 image: edge magnitude 336 / 1200 = 0.28, *)
(* the centre is filtered with blend factor 0.44                           *)
C16_Witness ==
    \E i \in RunIds :
        /\ JustRan(calls[i], "intelligentDenoising")
        /\ 336 * 336 \in FilteredEdges(calls[i].arg)
        /\ BlendFactor120k(336 * 336) = 52800
        /\ calls[i].imageData # calls[i].arg

(***************************************************************************)
(* Two invocations at the denoising stage, each holding a 3x3 grey image   *)
(* whose centre has a chosen edge magnitude: a vertical step of d grey     *)
(* levels gives 12 d / 1200, a single corner of d gives 3 sqrt(2) d / 1200.*)
(***************************************************************************)
EdgeSteps == {0, 1, 2, 20, 25, 29, 30, 31, 43, 60, 84, 85, 99, 100, 101, 255}

EdgeImage(pattern, d) ==
    [width |-> 3, height |-> 3,
     data |-> [i \in 0..35 |->
                 IF i % 4 = 3 THEN 255
                 ELSE IF pattern = "vsplit" /\ (i \div 4) % 3 > 0 THEN d
                 ELSE IF pattern = "corner" /\ i \div 4 = 0 THEN d
                 ELSE 0]]

EdgeImages == {EdgeImage(q[1], q[2]) : q \in {"vsplit", "corner"} \X EdgeSteps}

EdgeInit ==
    /\ coreRev = 2
    /\ hookRev = 1
    /\ originalImage = Null
    /\ originalFile = Null
    /\ enhancedImage = Null
    /\ isProcessing = FALSE
    /\ error = Null
    /\ processingProgress = 0
    /\ processingStartTime = Null
    /\ processingDuration = Null
    /\ runs = [r \in RunIds |-> IdleRun]
    /\ running \in {1, 2}
    /\ calls \in [RunIds -> {[IdleCall EXCEPT
                                !.pc = "intelligentDenoising",
                                !.url = [mime |-> <<"image", "png">>,
                                         decodable |-> TRUE, image |-> img],
                                !.ctx = TRUE,
                                !.canvas = img,
                                !.imageData = img,
                                !.promise = "pending",
                                !.log = <<"decode">>] : img \in EdgeImages}]

EdgeNext ==
    \E i \in RunIds :
        \/ IntelligentDenoisingStage(i)
        \/ ToneMappingStage(i)
        \/ PutAndResolve(i)

EdgeSpec == EdgeInit /\ [][EdgeNext]_vars

(* the squared Sobel magnitude at the centre of a 3x3 buffer *)
CentreEdge(image) == SobelSquare(image.data, image.width, image.height, 1, 1)

(* what the filter applies at a pixel: nothing when the pixel is skipped,  *)
(* else the kernel radius and the weight of the filtered estimate          *)
DenoiseStrength(n) ==
    IF EdgeSkips(n) THEN <<0, 0>> ELSE <<KernelRadius(n), BlendFactor120k(n)>>

(* C17: of two pixels, the one with the larger edge magnitude is filtered  *)
(* with a kernel radius and a weight of the filtered estimate that are not *)
(* larger, and is skipped if the other is; a skipped pixel is unchanged.   *)
C17_StrengthMonotone ==
    \A i, j \in RunIds :
        (i # j /\ JustRan(calls[i], "intelligentDenoising")
               /\ calls[j].pc = "intelligentDenoising") =>
            LET na == CentreEdge(calls[i].arg)
                nb == CentreEdge(calls[j].imageData)
                lo == Min(na, nb)
                hi == Max(na, nb)
            IN  /\ DenoiseStrength(hi)[1] <= DenoiseStrength(lo)[1]
                /\ DenoiseStrength(hi)[2] <= DenoiseStrength(lo)[2]
                /\ EdgeSkips(lo) => EdgeSkips(hi)
                /\ EdgeSkips(na) => calls[i].imageData = calls[i].arg

(* a flat image (radius 2, weight 1) was filtered while the other          *)
(* invocation holds a step of 29 (edge 0.29: radius 1, weight 0.42)        *)
C17_Witness ==
    /\ JustRan(calls[1], "intelligentDenoising")
    /\ calls[2].pc = "intelligentDenoising"
    /\ CentreEdge(calls[1].arg) = 0
    /\ CentreEdge(calls[2].imageData) = 348 * 348
    /\ DenoiseStrength(0) = <<2, 120000>>
    /\ DenoiseStrength(348 * 348) = <<1, 50400>>

(* the total weights of the filter at an interior pixel that is not        *)
(* skipped: for each channel <<weight of the centre, weight sum>>          *)
WeightSums(image, x, y) ==
    LET n == SobelSquare(image.data, image.width, image.height, x, y)
        radius == KernelRadius(n)
        side == 2 * radius + 1
    IN  [c \in 0..2 |->
            LET ws == FilterWeights(image.data, image.width, image.height,
                                    x, y, c, radius)
            IN  <<ws[radius * side + radius + 1][2],
                  SumTo([k \in 1..(side * side) |-> ws[k][2]], side * side)>>]

(* C18: wherever the filter divides by the weight sum, the centre pixel    *)
(* has contributed weight 1 and the sum is at least 1; with a weight sum   *)
(* of zero the blend returns the original sample; every sample the stage   *)
(* leaves in the buffer is an integer from 0 to 255.                       *)
C18_WeightSumPositive ==
    \A i \in RunIds :
        JustRan(calls[i], "intelligentDenoising") =>
            LET in == calls[i].arg
            IN  /\ \A q \in InteriorPixels(in.width, in.height) :
                      ~EdgeSkips(SobelSquare(in.data, in.width, in.height, q[1], q[2]))
                      => \A c \in 0..2 :
                            /\ WeightSums(in, q[1], q[2])[c][1] = 1000000
                            /\ WeightSums(in, q[1], q[2])[c][2] >= 1000000
                /\ \A k \in ColourIndices(in) :
                      /\ calls[i].imageData.data[k] \in 0..255
                      /\ \A B \in {36000, 52800, 120000} :
                            DenoiseBlend(in.data[k], 0, 0, B) = in.data[k]

(* a 3x3 image whose centre was filtered and changed, the neighbours       *)
(* having added their weights to the centre's own                          *)
C18_Witness ==
    \E i \in RunIds :
        /\ JustRan(calls[i], "intelligentDenoising")
        /\ calls[i].arg.width = 3 /\ calls[i].arg.height = 3
        /\ ~EdgeSkips(CentreEdge(calls[i].arg))
        /\ WeightSums(calls[i].arg, 1, 1)[0][2] > 1000000
        /\ calls[i].imageData.data[16] # calls[i].arg.data[16]

(* C19: tone mapping changes the buffer if and only if the average of      *)
(* (r + g + b) / 3 over the pixels is above 100 or its maximum is above    *)
(* 240; when it does, every colour sample v becomes 255 v / (255 + v)      *)
(* rounded to the nearest integer (halves up), which is at most v and at   *)
(* most 128; otherwise the buffer is unchanged.                            *)
C19_RemapIffBright ==
    \A i \in RunIds :
        JustRan(calls[i], "toneMapping") =>
            LET in == calls[i].arg
                out == calls[i].imageData
                n == in.width * in.height
                bright == \/ TotalChannelSum(in, n) > 3 * avgThreshold * n
                          \/ \E p \in PixelsOf(in) : ChannelSum(in, p) > 3 * maxThreshold
            IN  IF bright
                THEN \A k \in ColourIndices(in) :
                        /\ out.data[k] = MathRound(255 * in.data[k], 255 + in.data[k])
                        /\ out.data[k] <= in.data[k]
                        /\ out.data[k] <= 128
                ELSE out = in

(***************************************************************************)
(* The curve on every pair of samples: one pixel whose red sample is a and *)
(* whose green sample is b >= a is handed to enhanceZeroDCE (a 1x1 image   *)
(* has no interior, the stage is its three curve passes).                  *)
(***************************************************************************)
CurveInit ==
    /\ coreRev = 2
    /\ hookRev = 1
    /\ originalImage = Null
    /\ originalFile = Null
    /\ enhancedImage = Null
    /\ isProcessing = FALSE
    /\ error = Null
    /\ processingProgress = 0
    /\ processingStartTime = Null
    /\ processingDuration = Null
    /\ runs = [r \in RunIds |-> IdleRun]
    /\ running = 1
    /\ \E a \in 0..255 : \E b \in a..255 :
          LET img == [width |-> 1, height |-> 1,
                      data |-> [k \in 0..3 |-> <<a, b, 0, 255>>[k + 1]]]
          IN  calls = [r \in RunIds |->
                IF r = 1
                THEN [IdleCall EXCEPT
                        !.pc = "enhanceZeroDCE",
                        !.url = [mime |-> <<"image", "png">>, decodable |-> TRUE,
                                 image |-> img],
                        !.ctx = TRUE,
                        !.canvas = img,
                        !.imageData = img,
                        !.promise = "pending",
                        !.log = <<"decode">>]
                ELSE IdleCall]

CurveNext == \E i \in RunIds : EnhanceZeroDCEStage(i)

CurveSpec == CurveInit /\ [][CurveNext]_vars

(* C20: for samples a <= b the curve gives outputs in the same order, and  *)
(* no output is below its input, after one application of the curve and    *)
(* after the three applications enhanceZeroDCE makes.                      *)
C20_CurveMonotoneLift ==
    \A i \in RunIds :
        JustRan(calls[i], "enhanceZeroDCE") =>
            LET a == calls[i].arg.data[0]
                b == calls[i].arg.data[1]
                out == calls[i].imageData.data
            IN  a <= b =>
                  /\ CurveSample(a) <= CurveSample(b)
                  /\ CurveSample(a) >= a /\ CurveSample(b) >= b
                  /\ out[0] = CurveSample(CurveSample(CurveSample(a)))
                  /\ out[0] <= out[1]
                  /\ out[0] >= a /\ out[1] >= b

(* samples 10 < 11 went through the three passes: lifted, still ordered,   *)
(* and apart                                                               *)
C20_Witness ==
    \E i \in RunIds :
        /\ JustRan(calls[i], "enhanceZeroDCE")
        /\ calls[i].arg.data[0] = 10 /\ calls[i].arg.data[1] = 11
        /\ calls[i].imageData.data[0] > 10
        /\ calls[i].imageData.data[0] < calls[i].imageData.data[1]

(***************************************************************************)
(* The saturation step on single pixels: a 1x1 image of each colour of a   *)
(* grid is handed to enhanceWithGAN (no interior, the stage is its         *)
(* saturation step).                                                       *)
(***************************************************************************)
SatLevels == {0, 1, 17, 34, 60, 85, 100, 119, 128, 153, 170, 200, 221, 238, 254, 255}

SatInit ==
    /\ coreRev = 2
    /\ hookRev = 1
    /\ originalImage = Null
    /\ originalFile = Null
    /\ enhancedImage = Null
    /\ isProcessing = FALSE
    /\ error = Null
    /\ processingProgress = 0
    /\ processingStartTime = Null
    /\ processingDuration = Null
    /\ runs = [r \in RunIds |-> IdleRun]
    /\ running = 1
    /\ \E r0 \in SatLevels, g0 \in SatLevels, b0 \in SatLevels :
          LET img == [width |-> 1, height |-> 1,
                      data |-> [k \in 0..3 |-> <<r0, g0, b0, 255>>[k + 1]]]
          IN  calls = [r \in RunIds |->
                IF r = 1
                THEN [IdleCall EXCEPT
                        !.pc = "enhanceWithGAN",
                        !.url = [mime |-> <<"image", "png">>, decodable |-> TRUE,
                                 image |-> img],
                        !.ctx = TRUE,
                        !.canvas = img,
                        !.imageData = img,
                        !.promise = "pending",
                        !.log = <<"decode">>]
                ELSE IdleCall]

SatNext == \E i \in RunIds : EnhanceWithGANStage(i)

SatSpec == SatInit /\ [][SatNext]_vars

(* pixels to compare with: grey, faint, medium and strong colours *)
SatRefs ==
    {<<128, 128, 128>>, <<130, 128, 126>>, <<110, 100, 100>>, <<140, 120, 100>>,
     <<150, 100, 80>>, <<200, 150, 100>>, <<200, 60, 20>>, <<60, 200, 120>>,
     <<0, 0, 255>>, <<255, 0, 0>>, <<0, 255, 0>>, <<255, 255, 0>>}

(* C21: the saturation factor of a pixel is at least 0.1 and at most 0.3   *)
(* (200000 and 600000 in units of 0.5e-6), it is the one the stage applied *)
(* to the pixel, and of two pixels the one with the larger saturation      *)
(* magnitude never has the larger factor.                                  *)
C21_SaturationFactorBounded ==
    \A i \in RunIds :
        JustRan(calls[i], "enhanceWithGAN") =>
            LET d == calls[i].arg.data
                f == SaturationFactor(d[0], d[1], d[2])
                s == Saturation1000(d[0], d[1], d[2])[1]
            IN  /\ f >= 200000 /\ f <= 600000
                /\ \A c \in 0..2 : calls[i].imageData.data[c] =
                                        SaturationSample(d[c], d[0], d[1], d[2])
                /\ \A q \in SatRefs :
                      LET fq == SaturationFactor(q[1], q[2], q[3])
                          sq == Saturation1000(q[1], q[2], q[3])[1]
                      IN  /\ s < sq => f >= fq
                          /\ s > sq => f <= fq

(* an orange pixel whose saturation magnitude is above 100: the floor 0.1  *)
(* is what is applied, and the pixel changes                               *)
C21_Witness ==
    \E i \in RunIds :
        /\ JustRan(calls[i], "enhanceWithGAN")
        /\ calls[i].arg.data[0] = 200 /\ calls[i].arg.data[1] = 60
        /\ calls[i].arg.data[2] = 17
        /\ SaturationFactor(200, 60, 17) = 200000
        /\ SaturationFactorUnbounded(200, 60, 17) < 200000
        /\ calls[i].imageData.data[0] > 200
        /\ calls[i].imageData.data[1] < 60

(***************************************************************************)
(* Termination.  The load callback is one synchronous run: once entered,   *)
(* its statements follow one another with no other task in between, which  *)
(* is the weak fairness of its steps.  Images from 1x1 to TermDim x        *)
(* TermDim enter the first stage.                                          *)
(***************************************************************************)
TermDim == 3

TermParams ==
    {q \in (1..TermDim) \X (1..TermDim) \X {"uniform", "checker"}
             \X {1, 2, 3, 4, 6} \X {2, 5, 6, 7} :
        IF q[3] = "uniform" THEN q[4] = q[5] ELSE q[4] < q[5]}

(* the buffers of the invocations that run under a fairness condition: for *)
(* each image, what the first k stages make of it                          *)
MemoImages ==
    {DataUrlOf(f).image : f \in {g \in FileIds : Files[g].decodable}}
        \cup {ImageOfParams(q) : q \in TermParams}

StageMemo ==
    [rev \in {1, 2} |->
        [img \in MemoImages |->
            [k \in 0..Len(Pipeline(rev)) |-> RunAlone(img, Pipeline(rev), k)]]]

(* the stage step of invocation i, its output read from the table (by C12  *)
(* the buffer of an invocation is the one its own image gives); fairness   *)
(* is stated on this form of the step                                      *)
StageStep(i) ==
    /\ calls[i].pc \in StageNames
    /\ calls[i].url.image \in MemoImages
    /\ StagesDone(calls[i]) < Len(Pipeline(coreRev))
    /\ RunStage(i, calls[i].pc,
                StageMemo[coreRev][calls[i].url.image][StagesDone(calls[i]) + 1])

TermInit ==
    /\ coreRev \in {1, 2}
    /\ hookRev = 1
    /\ originalImage = Null
    /\ originalFile = Null
    /\ enhancedImage = Null
    /\ isProcessing = FALSE
    /\ error = Null
    /\ processingProgress = 0
    /\ processingStartTime = Null
    /\ processingDuration = Null
    /\ runs = [r \in RunIds |-> IdleRun]
    /\ running = 1
    /\ \E q \in TermParams :
        calls = [r \in RunIds |->
              IF r = 1
              THEN [IdleCall EXCEPT
                      !.pc = Pipeline(coreRev)[1],
                      !.url = [mime |-> <<"image", "png">>, decodable |-> TRUE,
                               image |-> ImageOfParams(q)],
                      !.ctx = TRUE,
                      !.canvas = ImageOfParams(q),
                      !.imageData = ImageOfParams(q),
                      !.promise = "pending",
                      !.log = <<"decode">>]
              ELSE IdleCall]

TermSpec ==
    /\ TermInit
    /\ [][StageNext]_vars
    /\ \A i \in RunIds : WF_vars(StageStep(i)) /\ WF_vars(PutAndResolve(i))

(* C22: for every buffer from 1x1 upwards the stages run to their end, one *)
(* after the other, without an error: the load callback never stops in a   *)
(* throw or a rejection, each stage is entered at most once, and the       *)
(* promise ends up resolved.  Every step taken is the step read from the   *)
(* table, so the fairness above is the fairness of the stages themselves.  *)
C22_PipelineTerminates ==
    /\ [][\E i \in RunIds : StageStep(i) \/ PutAndResolve(i)]_vars
    /\ [](\A i \in RunIds :
            /\ calls[i].pc # "threw"
            /\ calls[i].promise # "rejected"
            /\ StagesDone(calls[i]) <= Len(Pipeline(coreRev)))
    /\ <>(calls[1].promise = "resolved" /\ calls[1].pc = "returned")

(* a 1x1 image has been through all four stages and the encoding *)
C22_Witness ==
    /\ coreRev = 2
    /\ calls[1].url.image.width = 1 /\ calls[1].url.image.height = 1
    /\ calls[1].promise = "resolved"
    /\ calls[1].log = FullLog

(* every pixel of the image has the same R, G and B *)
UniformlyColoured(image) ==
    \A p, q \in PixelsOf(image) : \A c \in 0..2 :
        image.data[4 * p + c] = image.data[4 * q + c]

(* C23: a stage that is handed a uniformly coloured buffer (one R, G, B    *)
(* for every pixel, grey or not) leaves a uniformly coloured buffer:       *)
(* border and interior pixels end with the same colour.                    *)
C23_UniformStaysUniform ==
    \A i \in RunIds : \A name \in StageNames :
        (JustRan(calls[i], name) /\ UniformlyColoured(calls[i].arg))
            => UniformlyColoured(calls[i].imageData)

(* the load of invocation c has finished and its callback has ended *)
LoadEnded(c) == c.pc \in {"returned", "threw"}

(* C24: once the image load of a call has finished, with the image or with *)
(* an error, and its callback has ended, the promise of the call is        *)
(* settled: resolved with the encoded image of the buffer after all the    *)
(* stages, or rejected with no result; it is not left pending, also when a *)
(* step of the load callback threw.                                        *)
C24_PromiseSettled ==
    \A i \in RunIds :
        LoadEnded(calls[i]) =>
            \/ /\ calls[i].promise = "resolved"
               /\ StagesDone(calls[i]) = Len(Pipeline(coreRev))
               /\ calls[i].result = Some(toDataURL(calls[i].imageData))
            \/ /\ calls[i].promise = "rejected"
               /\ calls[i].result = Null

(***************************************************************************)
(* The hook with its callbacks scheduled.  The browser delivers the end of *)
(* a file read and of an image load, the timeout elapses, the statements   *)
(* of a callback follow one another and the continuation of an await runs  *)
(* once its promise is settled.  What the user does (upload, reset,        *)
(* re-enhance) and the ticks of the progress interval are not forced.      *)
(***************************************************************************)
CallbackStep(r) ==
    \/ DelayElapsed(r)
    \/ ImgOnload(r)
    \/ ImgOnerror(r)
    \/ StageStep(r)
    \/ PutAndResolve(r)
    \/ AwaitResolved(r)
    \/ AwaitRejected(r)

FairSpec ==
    /\ Init
    /\ [][Next]_vars
    /\ \A r \in RunIds :
          /\ WF_vars(ReaderOnload(r) \/ ReaderOnerror(r))
          /\ WF_vars(CallbackStep(r))

(* C25: after a call to processImage, whatever becomes of it (refused by   *)
(* the validation, read error, read ending with an empty result, success   *)
(* or failure of the enhancement), isProcessing is false again at some     *)
(* later moment.  Stated for the current core, whose enhanceImage settles  *)
(* its promise in every case.                                              *)
C25_ProcessingEnds ==
    \A r \in RunIds :
        (coreRev = 2 /\ runs[r].kind = "process") ~> ~isProcessing

(* C26: the progress interval of an enhancement run is cleared when the    *)
(* run ends, by a resolved or by a rejected enhanceImage: once the run has *)
(* ended (its finally block has set isProcessing to false), its interval   *)
(* does not fire again.                                                    *)
C26_TimerCleared ==
    [][\A r \in RunIds : runs[r].phase = "done" => ~ProgressTick(r)]_vars

(* a call of processImage, reprocessImage or resetImages *)
UserCall ==
    \/ \E r \in RunIds : \E f \in FileIds : ProcessImage(r, f)
    \/ \E r \in RunIds : ReprocessImage(r)
    \/ ResetImages

(* C27: in the revisions with a progress value, the successful end of an   *)
(* enhancement sets processingProgress to 100 (1000 tenths); a tick of the *)
(* interval never leaves it above the cap; and once it is 100 it stays 100 *)
(* until the next call of processImage, reprocessImage or resetImages.     *)
C27_ProgressHundredKept ==
    [][(hookRev \in {2, 3}) =>
         (/\ (\E r \in RunIds : AwaitResolved(r)) => processingProgress' = 1000
          /\ (\E r \in RunIds : ProgressTick(r))
                => processingProgress' <= ProgressCap(hookRev)
          /\ (processingProgress = 1000 /\ ~UserCall)
                => processingProgress' = 1000)]_vars

(* run r has started its enhancement (it holds the data URL and waits for  *)
(* the timeout or for enhanceImage) and has not reached its finally block  *)
EnhancementInFlight(r) == runs[r].phase \in {"delay", "enhancing"}

(* C28: isProcessing is true in every state in which an enhancement        *)
(* started by processImage or reprocessImage has not yet completed, also   *)
(* when a second upload was started before the first had finished (the     *)
(* second and third revision of the hook).                                 *)
C28_ProcessingWhileInFlight ==
    (hookRev \in {2, 3} /\ \E r \in RunIds : EnhancementInFlight(r))
        => isProcessing

(* what enhanceImage resolves with for the data URL of file f *)
EnhancedOf(f) ==
    Some(toDataURL(AloneBuffers[coreRev][f][Len(Pipeline(coreRev))]))

(* C29: whenever hasResult is true, enhancedImage is the enhancement       *)
(* result of the image held in originalImage; the result of an earlier or  *)
(* overlapping upload is never shown next to another original, whatever    *)
(* the interleaving of the read and enhancement callbacks of overlapping   *)
(* processImage calls and of resetImages.                                  *)
C29_ResultMatchesOriginal ==
    hasResult =>
        \E f \in DOMAIN AloneBuffers[coreRev] :
            /\ originalImage = Some(DataUrlOf(f))
            /\ enhancedImage = EnhancedOf(f)

====
